---- MODULE Spec2Model ----
(***************************************************************************)
(* The WebSocket hub of chat_project: ChatConsumer (chat/consumers.py)     *)
(* behind JWTAuthMiddleware (chat/middleware.py), over a channel layer.    *)
(*                                                                         *)
(* One consumer instance serves one connection.  Its handlers (connect,    *)
(* receive, the channel-message handlers, disconnect) are dispatched one   *)
(* at a time; handlers of different connections interleave freely and      *)
(* meet only in the channel layer (the groups and the per-channel queues). *)
(* A handler that raises ends its consumer: nothing is dispatched to it    *)
(* afterwards, its disconnect handler included.                            *)
(*                                                                         *)
(* Python values: a dict is a function from key strings to values, a       *)
(* missing key is a key outside its DOMAIN, None is the value None below.  *)
(*                                                                         *)
(* Beside the hub, the start_chat mutation (chat/schema.py) over           *)
(* Chat.get_or_create_chat (chat/models.py): each call runs its database   *)
(* statements one by one, outside any transaction, and the statements of   *)
(* concurrent calls interleave.                                            *)
(***************************************************************************)
EXTENDS Integers, Sequences, FiniteSets, TLC

VARIABLES
    st,        \* st[c]: "new" | "open" | "closed" | "crashed"
    user_id,   \* self.user_id of c's consumer
    chat_id,   \* self.chat_id of c's consumer
    groups,    \* channel layer: the set of <<group name, connection>> memberships
    queue,     \* channel layer: queue[c], the channel messages waiting for c
    outbox,    \* outbox[c]: the frames c's consumer has sent to its client
    log,       \* history: log[n], the n-th call of receive (by, data, raised, sends)
    fault,     \* history: fault[c], the connection whose event made c's handler raise
    chats,     \* the Chat table: chats[i], the participants of the chat of id i
    calls      \* calls[m]: the start_chat mutation m (pc, user1, user2, chat, created)

hubvars == <<st, user_id, chat_id, groups, queue, outbox, log, fault>>

dbvars == <<chats, calls>>

vars == <<st, user_id, chat_id, groups, queue, outbox, log, fault, chats, calls>>

-----------------------------------------------------------------------------
(* Bounds *)

MaxReceives == 2

MaxRouted == 1

Conns == {"c1", "c2"}

\* the concurrent start_chat mutations
Mutations == {"m1", "m2", "m3"}

-----------------------------------------------------------------------------
(* Python values *)

None == "<None>"

\* str(v) as an f-string formats it
Str(v) == IF v = None THEN "None" ELSE v

\* bool(v)
Truthy(v) == v \notin {None, ""}

\* d.get(k)
Get(d, k) == IF k \in DOMAIN d THEN d[k] ELSE None

\* d.get(k, default)
GetDefault(d, k, default) == IF k \in DOMAIN d THEN d[k] ELSE default

\* d[k] = v
SetItem(d, k, v) == [x \in DOMAIN d \cup {k} |-> IF x = k THEN v ELSE d[x]]

\* the dict d without the keys of K (builds the inputs)
Drop(d, K) == [x \in DOMAIN d \ K |-> d[x]]

EmptyDict == [x \in {} |-> None]

-----------------------------------------------------------------------------
(* middleware.py: identity from the token of the query string *)

\* the ids of the rows of the User table
Users == {"1", "2"}

AnonymousUser == [is_authenticated |-> FALSE, id |-> None]

UserRow(uid) == [is_authenticated |-> TRUE, id |-> uid]

\* a token of the query string: absent, or what jwt.decode makes of it
Tokens ==
    { [kind |-> "missing", user_id |-> None],
      [kind |-> "expired", user_id |-> "1"],
      [kind |-> "invalid", user_id |-> "1"],
      [kind |-> "signed",  user_id |-> None],
      [kind |-> "signed",  user_id |-> "9"],
      [kind |-> "signed",  user_id |-> "1"] }

\* JWTAuthMiddleware.get_user: <<the row>>, or <<>> for the None of User.DoesNotExist
get_user(uid) == IF uid \in Users THEN <<UserRow(uid)>> ELSE <<>>

\* a middleware that accepts an expired token
JWTAuthMiddleware_no_expiry(token) ==
    IF token.kind \in {"signed", "expired"} /\ get_user(token.user_id) # <<>>
    THEN get_user(token.user_id)[1]
    ELSE AnonymousUser

\* JWTAuthMiddleware.__call__: the value of scope["user"]
JWTAuthMiddleware(token) ==
    IF token.kind # "missing"
    THEN IF token.kind = "expired" THEN AnonymousUser
         ELSE IF token.kind = "invalid" THEN AnonymousUser
         ELSE IF Truthy(token.user_id)
              THEN IF get_user(token.user_id) # <<>>
                   THEN get_user(token.user_id)[1]
                   ELSE AnonymousUser
              ELSE AnonymousUser
    ELSE AnonymousUser

\* the chat_id of the URL route
RouteChatIds == {"1", "2"}

-----------------------------------------------------------------------------
(* the channel layer *)

Members(g) == {c \in Conns : <<g, c>> \in groups}

GroupsOf(c) == {m[1] : m \in {x \in groups : x[2] = c}}

\* a group_add that also joins the presence group
group_add_online(g, c) == groups \cup {<<g, c>>, <<"online_users", c>>}

group_add(g, c) == groups \cup {<<g, c>>}

\* a group_discard that empties the group
group_discard_group(g, c) == {x \in groups : x[1] # g}

\* a group_discard that removes nothing
group_discard_nothing(g, c) == groups

group_discard(g, c) == groups \ {<<g, c>>}

\* a group_send that puts the message at the front of each queue
group_send_front(q, g, entry) ==
    [c \in Conns |-> IF c \in Members(g) THEN <<entry>> \o q[c] ELSE q[c]]

\* a group_send whose loop over the members stops after the first one
group_send_first_only(q, g, entry) ==
    [c \in Conns |->
        IF c \in Members(g) /\ c = (CHOOSE x \in Members(g) : TRUE)
        THEN Append(q[c], entry) ELSE q[c]]

\* group_send: the message goes to the back of the queue of every member
group_send(q, g, entry) ==
    [c \in Conns |-> IF c \in Members(g) THEN Append(q[c], entry) ELSE q[c]]

-----------------------------------------------------------------------------
(* consumers.py: the event router, ChatConsumer.receive *)

RecognizedEvents ==
    {"start_chat", "new_message", "update_profile", "delete_chat",
     "typing_indicator", "user_online", "user_offline"}

\* a receive that dereferences payload before it looks at the event kind
receive_raises_any(data) == "payload" \notin DOMAIN data

\* receive raises: payload is None (no "payload" key) and a branch calls payload.get
receive_raises(data) ==
    /\ Get(data, "event") \in RecognizedEvents
    /\ "payload" \notin DOMAIN data

\* a message_data without the default of content
message_data_as_sent(payload) == GetDefault(payload, "message", EmptyDict)

\* the message_data of the new_message branch
message_data(payload) ==
    SetItem(GetDefault(payload, "message", EmptyDict), "content",
            GetDefault(GetDefault(payload, "message", EmptyDict), "content", "No content"))

\* the group_send calls of receive(data), in order: <<[group, event]>>
routed(data) ==
    LET event_type == Get(data, "event")
        payload    == data["payload"]
    IN  CASE event_type = "start_chat" ->
               << [group |-> "user_" \o Str(Get(payload, "recipient_id")),
                   event |-> [type |-> "chat_started", chat |-> Get(payload, "chat")]] >>
          [] event_type = "new_message" ->
               << [group |-> "chat_" \o Str(Get(payload, "chat_id")),
                   event |-> [type |-> "new_message", message |-> message_data(payload)]] >>
          [] event_type = "update_profile" ->
               << [group |-> "online_users",
                   event |-> [type |-> "profile_updated", profile |-> Get(payload, "profile")]] >>
          [] event_type = "delete_chat" ->
               << [group |-> "chat_" \o Str(Get(payload, "chat_id")),
                   event |-> [type |-> "chat_deleted", chat_id |-> Get(payload, "chat_id")]] >>
          [] event_type = "typing_indicator" ->
               << [group |-> "user_" \o Str(Get(payload, "recipient_id")),
                   event |-> [type |-> "user_typing", user_id |-> Get(payload, "user_id")]] >>
          [] event_type = "user_online" ->
               << [group |-> "online_users",
                   event |-> [type |-> "user_online", user_id |-> Get(payload, "user_id")]] >>
          [] event_type = "user_offline" ->
               << [group |-> "online_users",
                   event |-> [type |-> "user_offline", user_id |-> Get(payload, "user_id")]] >>
          [] OTHER -> << >>

-----------------------------------------------------------------------------
(* consumers.py: the outbound translators, one handler per channel message type *)

chat_started(event) == [event |-> "chat_started", data |-> event["chat"]]

\* event["message"][k] raises KeyError for a missing key
new_message_raises(event) ==
    \/ ~ ({"id", "sender", "content", "mediaType", "timestamp"} \subseteq DOMAIN event["message"])
    \/ ~ ({"id", "username"} \subseteq DOMAIN event["message"]["sender"])

new_message(event) ==
    [event |-> "new_message",
     payload |-> [message |->
        [id        |-> event["message"]["id"],
         sender    |-> [id       |-> event["message"]["sender"]["id"],
                        username |-> event["message"]["sender"]["username"]],
         content   |-> event["message"]["content"],
         mediaType |-> event["message"]["mediaType"],
         timestamp |-> event["message"]["timestamp"]]]]

profile_updated(event) == [event |-> "profile_updated", data |-> event["profile"]]

\* a chat_deleted that sends the inbound event name
chat_deleted_inbound_name(event) == [event |-> "delete_chat", data |-> [chat_id |-> event["chat_id"]]]

chat_deleted(event) == [event |-> "chat_deleted", data |-> [chat_id |-> event["chat_id"]]]

user_typing(event) == [event |-> "user_typing", data |-> [user_id |-> event["user_id"]]]

user_online(event) == [event |-> "user_online", data |-> [user_id |-> event["user_id"]]]

user_offline(event) == [event |-> "user_offline", data |-> [user_id |-> event["user_id"]]]

\* the handler named by event["type"] raises
handler_raises(event) == event.type = "new_message" /\ new_message_raises(event)

\* the frame the handler named by event["type"] sends
handler_frame(event) ==
    CASE event.type = "chat_started"    -> chat_started(event)
      [] event.type = "new_message"     -> new_message(event)
      [] event.type = "profile_updated" -> profile_updated(event)
      [] event.type = "chat_deleted"    -> chat_deleted(event)
      [] event.type = "user_typing"     -> user_typing(event)
      [] event.type = "user_online"     -> user_online(event)
      [] event.type = "user_offline"    -> user_offline(event)

-----------------------------------------------------------------------------
(* the inbound envelopes *)

MsgFull ==
    [id |-> "m1", sender |-> [id |-> "7", username |-> "ann"],
     content |-> "hi", mediaType |-> "text", timestamp |-> "t0"]

\* a message of the client: every key, or some keys left out
Messages ==
    { Drop(MsgFull, K) :
        K \in { {}, {"mediaType", "timestamp"}, {"content"}, {"id"}, {"sender"} } }

PayloadIds == {"1", "2"}

Envelope(kind, payload) == [event |-> kind, payload |-> payload]

\* the envelopes of the chat groups, one of no recognized kind, one with no payload,
\* one of presence
CoreEnvelopes ==
    { Envelope("new_message", [chat_id |-> i, message |-> m]) :
        i \in PayloadIds, m \in {MsgFull, Drop(MsgFull, {"mediaType", "timestamp"})} }
    \cup { Envelope("delete_chat", [chat_id |-> i]) : i \in PayloadIds }
    \cup { [event |-> "ping"], [event |-> "new_message"] }
    \cup { Envelope("user_online", [user_id |-> "2"]) }

\* the dicts with key k, one per value of V, and the dict without it
Opt(k, V) == {EmptyDict} \cup {k :> v : v \in V}

\* the dicts of two optional parts
Both(A, B) == {a @@ b : a \in A, b \in B}

\* every kind of the taxonomy with its payload keys present or missing, every kind
\* with no payload, and envelopes of no recognized kind
Envelopes ==
    { Envelope("start_chat", p) : p \in Both(Opt("recipient_id", {"1"}), Opt("chat", {"chat-1"})) }
    \cup { Envelope("new_message", p) : p \in Both(Opt("chat_id", PayloadIds), Opt("message", Messages)) }
    \cup { Envelope("update_profile", p) : p \in Opt("profile", {"profile-1"}) }
    \cup { Envelope("delete_chat", p) : p \in Opt("chat_id", PayloadIds) }
    \cup { Envelope("typing_indicator", p) : p \in Both(Opt("recipient_id", {"1"}), Opt("user_id", {"2"})) }
    \cup { Envelope("user_online", p) : p \in Opt("user_id", PayloadIds) }
    \cup { Envelope("user_offline", p) : p \in Opt("user_id", PayloadIds) }
    \cup { [event |-> k] : k \in RecognizedEvents \cup {"ping"} }
    \cup { Envelope("ping", EmptyDict), [payload |-> EmptyDict] }

-----------------------------------------------------------------------------
Init ==
    /\ st = [c \in Conns |-> "new"]
    /\ user_id = [c \in Conns |-> None]
    /\ chat_id = [c \in Conns |-> None]
    /\ groups = {}
    /\ queue = [c \in Conns |-> <<>>]
    /\ outbox = [c \in Conns |-> <<>>]
    /\ log = <<>>
    /\ fault = [c \in Conns |-> None]
    /\ chats = << >>
    /\ calls = [m \in Mutations |-> [pc |-> "idle", user1 |-> None, user2 |-> None,
                                      chat |-> 0, created |-> FALSE]]

\* a group name built with the wrong prefix
chat_group_name_user(cid) == "user_" \o Str(cid)

\* self.chat_group_name of connect
chat_group_name(cid) == "chat_" \o Str(cid)

\* ChatConsumer.connect, behind JWTAuthMiddleware.__call__
connect(c, token, route) ==
    LET user == JWTAuthMiddleware(token)
        uid  == IF user.is_authenticated THEN user.id ELSE None
    IN  /\ st[c] = "new"
        /\ st' = [st EXCEPT ![c] = "open"]
        /\ user_id' = [user_id EXCEPT ![c] = uid]
        /\ chat_id' = [chat_id EXCEPT ![c] = route]
        /\ groups' = IF Truthy(uid) /\ Truthy(route)
                     THEN group_add(chat_group_name(route), c)
                     ELSE groups
        /\ UNCHANGED <<queue, outbox, log, fault>>

\* ChatConsumer.disconnect
disconnect(c) ==
    /\ st[c] = "open"
    /\ st' = [st EXCEPT ![c] = "closed"]
    /\ groups' = IF Truthy(chat_id[c])
                 THEN group_discard("chat_" \o Str(chat_id[c]), c)
                 ELSE groups
    /\ UNCHANGED <<user_id, chat_id, queue, outbox, log, fault>>

\* the queues after the group_sends of ss, made by the n-th call of receive
RECURSIVE send_all(_, _, _)
send_all(q, ss, n) ==
    IF ss = << >> THEN q
    ELSE send_all(group_send(q, Head(ss).group, [bid |-> n, event |-> Head(ss).event]),
                  Tail(ss), n)

\* a receive that makes the group_sends ss and leaves the memberships G
receive_like(c, data, ss, G) ==
    /\ st[c] = "open"
    /\ IF receive_raises(data)
       THEN /\ st' = [st EXCEPT ![c] = "crashed"]
            /\ fault' = [fault EXCEPT ![c] = c]
            /\ log' = Append(log, [by |-> c, data |-> data, raised |-> TRUE, sends |-> << >>])
            /\ UNCHANGED queue
       ELSE /\ queue' = send_all(queue, ss, Len(log) + 1)
            /\ log' = Append(log,
                   [by |-> c, data |-> data, raised |-> FALSE,
                    sends |-> [i \in 1..Len(ss) |->
                                 [group |-> ss[i].group, event |-> ss[i].event,
                                  members |-> Members(ss[i].group)]]])
            /\ UNCHANGED <<st, fault>>
    /\ groups' = G
    /\ UNCHANGED <<user_id, chat_id, outbox>>

\* a receive that reports presence under the sender's own identity
receive_own_identity(c, data) ==
    receive_like(c, data,
        IF receive_raises(data) \/ Get(data, "event") \notin {"user_online", "user_offline"}
        THEN routed(data)
        ELSE << [group |-> "online_users",
                 event |-> [type |-> Get(data, "event"), user_id |-> user_id[c]]] >>,
        groups)

\* a receive whose delete_chat disbands the chat's group
receive_delete_disbands(c, data) ==
    receive_like(c, data,
        IF receive_raises(data) THEN << >> ELSE routed(data),
        IF ~receive_raises(data) /\ Get(data, "event") = "delete_chat"
        THEN {x \in groups : x[1] # routed(data)[1].group}
        ELSE groups)

\* a receive that broadcasts to a chat group only for one of its members
receive_members_only(c, data) ==
    receive_like(c, data,
        IF receive_raises(data) \/ routed(data) = << >> \/ <<routed(data)[1].group, c>> \in groups
        THEN routed(data)
        ELSE << >>,
        groups)

\* ChatConsumer.receive on the inbound frame data
receive(c, data) ==
    /\ st[c] = "open"
    /\ IF receive_raises(data)
       THEN /\ st' = [st EXCEPT ![c] = "crashed"]
            /\ fault' = [fault EXCEPT ![c] = c]
            /\ log' = Append(log, [by |-> c, data |-> data, raised |-> TRUE, sends |-> << >>])
            /\ UNCHANGED queue
       ELSE LET ss == routed(data)
            IN  /\ queue' = send_all(queue, ss, Len(log) + 1)
                /\ log' = Append(log,
                       [by |-> c, data |-> data, raised |-> FALSE,
                        sends |-> [i \in 1..Len(ss) |->
                                     [group |-> ss[i].group, event |-> ss[i].event,
                                      members |-> Members(ss[i].group)]]])
                /\ UNCHANGED <<st, fault>>
    /\ UNCHANGED <<user_id, chat_id, groups, outbox>>

\* the consumer of c takes the next message of its channel and runs its handler
deliver(c) ==
    /\ st[c] = "open"
    /\ queue[c] # << >>
    /\ LET e == Head(queue[c])
       IN  /\ queue' = [queue EXCEPT ![c] = Tail(queue[c])]
           /\ IF handler_raises(e.event)
              THEN /\ st' = [st EXCEPT ![c] = "crashed"]
                   /\ fault' = [fault EXCEPT ![c] = log[e.bid].by]
                   /\ UNCHANGED outbox
              ELSE /\ outbox' = [outbox EXCEPT
                          ![c] = Append(outbox[c], [bid |-> e.bid, frame |-> handler_frame(e.event)])]
                   /\ UNCHANGED <<st, fault>>
    /\ UNCHANGED <<user_id, chat_id, groups, log>>

Next ==
    \/ \E c \in Conns, token \in Tokens, route \in RouteChatIds :
          connect(c, token, route) /\ UNCHANGED dbvars
    \/ \E c \in Conns, data \in CoreEnvelopes :
          Len(log) < MaxReceives /\ receive(c, data) /\ UNCHANGED dbvars
    \/ \E c \in Conns : deliver(c) /\ UNCHANGED dbvars
    \/ \E c \in Conns : disconnect(c) /\ UNCHANGED dbvars

Spec == Init /\ [][Next]_vars

\* the same hub, fed every envelope of the taxonomy
RouteNext ==
    \/ \E c \in Conns, token \in Tokens, route \in RouteChatIds :
          connect(c, token, route) /\ UNCHANGED dbvars
    \/ \E c \in Conns, data \in Envelopes :
          Len(log) < MaxRouted /\ receive(c, data) /\ UNCHANGED dbvars
    \/ \E c \in Conns : deliver(c) /\ UNCHANGED dbvars
    \/ \E c \in Conns : disconnect(c) /\ UNCHANGED dbvars

RouteSpec == Init /\ [][RouteNext]_vars

-----------------------------------------------------------------------------
(* schema.py, models.py: start_chat over Chat.get_or_create_chat *)

\* cls.objects.filter(participants=user1).filter(participants=user2): the ids found
filter_participants(user1, user2) ==
    {i \in 1..Len(chats) : user1 \in chats[i] /\ user2 \in chats[i]}

\* .first(): the row of the lowest id
first(ids) == CHOOSE i \in ids : \A j \in ids : i <= j

\* Mutation.start_chat: the two users are fetched and get_or_create_chat is entered
start_chat(m, user1, user2) ==
    /\ calls[m].pc = "idle"
    /\ calls' = [calls EXCEPT ![m] = [@ EXCEPT !.pc = "filter", !.user1 = user1, !.user2 = user2]]
    /\ UNCHANGED chats

\* get_or_create_chat: the query; the chat found is returned with created False
get_or_create_chat_filter(m) ==
    /\ calls[m].pc = "filter"
    /\ LET found == filter_participants(calls[m].user1, calls[m].user2)
       IN  calls' = [calls EXCEPT ![m] =
                        IF found # {}
                        THEN [@ EXCEPT !.pc = "done", !.chat = first(found), !.created = FALSE]
                        ELSE [@ EXCEPT !.pc = "create"]]
    /\ UNCHANGED chats

\* get_or_create_chat: cls.objects.create()
get_or_create_chat_create(m) ==
    /\ calls[m].pc = "create"
    /\ chats' = Append(chats, {})
    /\ calls' = [calls EXCEPT ![m] = [@ EXCEPT !.pc = "add", !.chat = Len(chats) + 1]]

\* get_or_create_chat: chat.participants.add(user1, user2); returns created True
get_or_create_chat_add(m) ==
    /\ calls[m].pc = "add"
    /\ chats' = [chats EXCEPT ![calls[m].chat] = @ \cup {calls[m].user1, calls[m].user2}]
    /\ calls' = [calls EXCEPT ![m] = [@ EXCEPT !.pc = "done", !.created = TRUE]]

ChatNext ==
    \/ \E m \in Mutations, user1, user2 \in Users :
          user1 # user2 /\ start_chat(m, user1, user2) /\ UNCHANGED hubvars
    \/ \E m \in Mutations : get_or_create_chat_filter(m) /\ UNCHANGED hubvars
    \/ \E m \in Mutations : get_or_create_chat_create(m) /\ UNCHANGED hubvars
    \/ \E m \in Mutations : get_or_create_chat_add(m) /\ UNCHANGED hubvars

ChatSpec == Init /\ [][ChatNext]_vars

-----------------------------------------------------------------------------
(* Properties *)

\* the frames of outbox[c] that come from the n-th receive
FramesOf(c, n) == {i \in 1..Len(outbox[c]) : outbox[c][i].bid = n}

\* the message of the n-th receive still waits in c's channel
Pending(c, n) == \E i \in 1..Len(queue[c]) : queue[c][i].bid = n

\* the receives that made a group_send
Broadcasts == {n \in 1..Len(log) : log[n].sends # << >>}

\* C1: once the disconnect handler of a connection has returned, the connection
\* is a member of no group, whether or not it was authenticated or had joined one.
C1_NoGroupAfterDisconnect ==
    \A c \in Conns : st[c] = "closed" => GroupsOf(c) = {}

\* a connection that had joined a group has disconnected, and one that never joined too
C1_Witness ==
    /\ \E c \in Conns : st[c] = "closed" /\ Truthy(user_id[c])
    /\ \E c \in Conns : st[c] = "closed" /\ ~Truthy(user_id[c])

\* C2: of every broadcast, a connection gets at most one frame; a connection outside
\* the member snapshot gets none; a member of the snapshot that did not disconnect
\* and whose consumer has taken the message from its channel has got exactly one.
C2_ExactlyOneFrame ==
    \A n \in Broadcasts : \A c \in Conns :
        LET k == Cardinality(FramesOf(c, n))
        IN  /\ k <= 1
            /\ c \notin log[n].sends[1].members => k = 0
            /\ (c \in log[n].sends[1].members /\ st[c] # "closed" /\ ~Pending(c, n)) => k = 1

\* C3: the frames of two broadcasts to the same group reach every member in the
\* order the broadcasts were issued, and a member of both snapshots that has the
\* frame of the later one has the frame of the earlier one.
C3_BroadcastOrder ==
    /\ \A c \in Conns : \A i, j \in 1..Len(outbox[c]) :
          (i < j /\ log[outbox[c][i].bid].sends[1].group = log[outbox[c][j].bid].sends[1].group)
              => outbox[c][i].bid < outbox[c][j].bid
    /\ \A c \in Conns : \A n1, n2 \in Broadcasts :
          ( /\ n1 < n2
            /\ log[n1].sends[1].group = log[n2].sends[1].group
            /\ c \in log[n1].sends[1].members
            /\ FramesOf(c, n2) # {} )
              => FramesOf(c, n1) # {}

\* a member holds the frames of two broadcasts to its group, from different senders
C3_Witness ==
    \E c \in Conns :
        /\ Len(outbox[c]) = 2
        /\ log[outbox[c][1].bid].by # log[outbox[c][2].bid].by
        /\ log[outbox[c][1].bid].sends[1].group = log[outbox[c][2].bid].sends[1].group

\* the target group of the taxonomy table, as a tagged key
TableGroup(data) ==
    CASE data.event \in {"start_chat", "typing_indicator"} ->
           [tag |-> "user", id |-> Get(data.payload, "recipient_id")]
      [] data.event \in {"new_message", "delete_chat"} ->
           [tag |-> "chat", id |-> Get(data.payload, "chat_id")]
      [] data.event \in {"update_profile", "user_online", "user_offline"} ->
           [tag |-> "online", id |-> None]

\* the channel layer's name of a group key
GroupName(key) ==
    CASE key.tag = "user"   -> "user_" \o Str(key.id)
      [] key.tag = "chat"   -> "chat_" \o Str(key.id)
      [] key.tag = "online" -> "online_users"

\* the outbound event name and fields of the taxonomy table, as a frame
TableFrame(data) ==
    LET p == data.payload
    IN  CASE data.event = "start_chat" -> [event |-> "chat_started", data |-> Get(p, "chat")]
          [] data.event = "new_message" ->
               [event |-> "new_message",
                payload |-> [message |->
                   [id        |-> p.message.id,
                    sender    |-> [id |-> p.message.sender.id, username |-> p.message.sender.username],
                    content   |-> GetDefault(p.message, "content", "No content"),
                    mediaType |-> p.message.mediaType,
                    timestamp |-> p.message.timestamp]]]
          [] data.event = "update_profile" -> [event |-> "profile_updated", data |-> Get(p, "profile")]
          [] data.event = "delete_chat" ->
               [event |-> "chat_deleted", data |-> [chat_id |-> Get(p, "chat_id")]]
          [] data.event = "typing_indicator" ->
               [event |-> "user_typing", data |-> [user_id |-> Get(p, "user_id")]]
          [] data.event = "user_online" ->
               [event |-> "user_online", data |-> [user_id |-> Get(p, "user_id")]]
          [] data.event = "user_offline" ->
               [event |-> "user_offline", data |-> [user_id |-> Get(p, "user_id")]]

\* C4: a receive of a recognized kind that carries a payload makes exactly one
\* group_send, to the group of the taxonomy table; the frame its handler sends,
\* and every frame a connection got for it, has the table's event name and fields;
\* and its message reaches only members of that group.
C4_RoutingTable ==
    \A n \in 1..Len(log) :
        LET d == log[n].data
        IN  (Get(d, "event") \in RecognizedEvents /\ "payload" \in DOMAIN d) =>
              /\ Len(log[n].sends) = 1
              /\ log[n].sends[1].group = GroupName(TableGroup(d))
              /\ ~handler_raises(log[n].sends[1].event)
                    => handler_frame(log[n].sends[1].event) = TableFrame(d)
              /\ \A c \in Conns :
                    /\ \A i \in FramesOf(c, n) : outbox[c][i].frame = TableFrame(d)
                    /\ (FramesOf(c, n) # {} \/ Pending(c, n))
                          => <<GroupName(TableGroup(d)), c>> \in groups \/ st[c] = "closed"

\* a member of chat_1 other than the sender holds the chat_deleted frame of a
\* delete_chat for chat 1, while a connection of chat_2 holds nothing
C4_Witness ==
    \E n \in 1..Len(log) : \E c, o \in Conns :
        /\ log[n].data = Envelope("delete_chat", [chat_id |-> "1"])
        /\ c # log[n].by
        /\ FramesOf(c, n) # {}
        /\ log[n].by = o /\ chat_id[o] = "2"

\* C5: no connection's handler raises because of an event another connection sent.
C5_FailuresContained ==
    \A c \in Conns : fault[c] \in {None, c}

\* C6: a new_message whose message has id, sender and content but neither mediaType
\* nor timestamp gives every other member of the chat that took it from its channel
\* one new_message frame with mediaType and timestamp None.
C6_OmittedFieldsAsNone ==
    \A n \in 1..Len(log) : \A c \in Conns :
        LET d == log[n].data
        IN  ( /\ Get(d, "event") = "new_message"
              /\ "payload" \in DOMAIN d
              /\ "message" \in DOMAIN d.payload
              /\ DOMAIN d.payload.message = {"id", "sender", "content"}
              /\ c \in log[n].sends[1].members
              /\ c # log[n].by
              /\ st[c] # "closed"
              /\ ~Pending(c, n) )
            => \E i \in FramesOf(c, n) :
                  outbox[c][i].frame =
                    [event |-> "new_message",
                     payload |-> [message |->
                        [id        |-> d.payload.message.id,
                         sender    |-> d.payload.message.sender,
                         content   |-> d.payload.message.content,
                         mediaType |-> None,
                         timestamp |-> None]]]

\* C7: receive of an envelope of a recognized kind never raises, whatever its payload.
C7_ReceiveNeverRaises ==
    \A n \in 1..Len(log) :
        Get(log[n].data, "event") \in RecognizedEvents => ~log[n].raised

\* C8: receive of an envelope of no recognized kind makes no group_send, puts no
\* message in any channel and no frame in any outbox, changes no group membership
\* and leaves the sending connection open.
C8_UnknownEventIgnored ==
    [][ \A c \in Conns : \A data \in Envelopes :
          (Get(data, "event") \notin RecognizedEvents /\ receive(c, data))
            => /\ UNCHANGED <<st, user_id, chat_id, groups, queue, outbox, fault>>
               /\ log'[Len(log')].sends = << >>
               /\ ~log'[Len(log')].raised ]_vars

\* a ping with no payload was received from a connection that is still open,
\* while the other connection is a member of a group
C8_Witness ==
    \E n \in 1..Len(log) : \E c \in Conns :
        /\ log[n].data = [event |-> "ping"]
        /\ st[log[n].by] = "open"
        /\ c # log[n].by
        /\ GroupsOf(c) # {}

\* identity resolution fails for the token
IdentityFails(token) ==
    \/ token.kind \in {"missing", "expired", "invalid"}
    \/ token.user_id = None
    \/ token.user_id \notin Users

\* C9: a connect whose identity resolution fails leaves the connection accepted,
\* with user_id None and in no group; and a connected connection with user_id None
\* is in no group, has no message in its channel and has got no frame.
C9_AuthFailureStaysOutside ==
    /\ [][ \A c \in Conns : \A token \in Tokens : \A route \in RouteChatIds :
             (IdentityFails(token) /\ connect(c, token, route))
               => (st'[c] = "open" /\ user_id'[c] = None /\ <<chat_group_name(route), c>> \notin groups') ]_vars
    /\ [](\A c \in Conns :
             (st[c] # "new" /\ user_id[c] = None)
               => (GroupsOf(c) = {} /\ queue[c] = << >> /\ outbox[c] = << >>))

\* an unauthenticated connection of route chat 1 got nothing of a broadcast to
\* chat_1 whose frame an authenticated member holds
C9_Witness ==
    \E c, o \in Conns :
        /\ st[c] = "open" /\ user_id[c] = None /\ chat_id[c] = "1"
        /\ st[o] = "open" /\ chat_id[o] = "1" /\ outbox[o] # << >>
        /\ outbox[c] = << >>

\* C10: an open connection whose identity and chat context both resolved is a
\* member of chat_<chat_id> of its route, and of no other group: not of user_<user_id>.
C10_JoinsChatGroupOnly ==
    \A c \in Conns :
        (st[c] = "open" /\ Truthy(user_id[c]) /\ Truthy(chat_id[c]))
          => /\ <<"chat_" \o Str(chat_id[c]), c>> \in groups
             /\ <<"user_" \o Str(user_id[c]), c>> \notin groups
             /\ GroupsOf(c) = {"chat_" \o Str(chat_id[c])}

\* an authenticated connection of route chat 2 is open
C10_Witness ==
    \E c \in Conns : st[c] = "open" /\ user_id[c] = "1" /\ chat_id[c] = "2"

\* C11: an authenticated connection is registered under user_<user_id> at connect,
\* so a typing_indicator or start_chat with recipient_id r puts its message in the
\* channel of every open authenticated connection of user r.
C11_DeliveredToRecipient ==
    [][ \A c \in Conns : \A data \in Envelopes :
          ( /\ receive(c, data)
            /\ Get(data, "event") \in {"typing_indicator", "start_chat"}
            /\ "payload" \in DOMAIN data )
            => \A o \in Conns :
                  (st[o] = "open" /\ Truthy(user_id[o])
                     /\ user_id[o] = Get(data.payload, "recipient_id"))
                    => queue'[o] # queue[o] ]_vars

\* the group and the message of each group_send of a receive
Routing(entry) ==
    [i \in 1..Len(entry.sends) |-> [group |-> entry.sends[i].group, event |-> entry.sends[i].event]]

\* C12: two receives of the same envelope, whoever sent them, raise alike and make
\* the same group_sends (same groups, same messages); and a user_online goes to
\* online_users with the user_id of its payload.
C12_RoutingIgnoresSender ==
    /\ \A n, m \in 1..Len(log) :
          (Get(log[n].data, "event") = Get(log[m].data, "event") /\ log[n].data = log[m].data)
            => (log[n].raised = log[m].raised /\ Routing(log[n]) = Routing(log[m]))
    /\ \A n \in 1..Len(log) :
          (Get(log[n].data, "event") = "user_online" /\ "payload" \in DOMAIN log[n].data)
            => Routing(log[n]) =
                 << [group |-> "online_users",
                     event |-> [type |-> "user_online",
                                user_id |-> Get(log[n].data.payload, "user_id")]] >>

\* the same user_online for user 2 came from a connection of user 1 and from one
\* that never authenticated
C12_Witness ==
    \E n, m \in 1..Len(log) :
        /\ log[n].data = Envelope("user_online", [user_id |-> "2"])
        /\ log[m].data = Envelope("user_online", [user_id |-> "2"])
        /\ user_id[log[n].by] = "1"
        /\ user_id[log[m].by] = None

\* C13: a connection whose session has ended (its transport is closed: it
\* disconnected, or its consumer ended) has left its groups: it is a member of none.
C13_EndedSessionLeftGroups ==
    \A c \in Conns : st[c] \in {"closed", "crashed"} => GroupsOf(c) = {}

\* C14: when a member of a broadcast's snapshot has disconnected with the message
\* still in its channel, the broadcasting receive has not raised, and every other
\* member of the snapshot that is open has the message in its channel or has got
\* exactly one frame of it.
C14_DisconnectDoesNotAbort ==
    \A n \in Broadcasts : \A m \in log[n].sends[1].members :
        (st[m] = "closed" /\ Pending(m, n)) =>
            /\ ~log[n].raised
            /\ \A o \in log[n].sends[1].members \ {m} :
                  st[o] = "open" =>
                     \/ Pending(o, n) /\ FramesOf(o, n) = {}
                     \/ ~Pending(o, n) /\ Cardinality(FramesOf(o, n)) = 1

\* a member disconnected with the message in its channel, and the other member of
\* the snapshot, still open, holds its frame
C14_Witness ==
    \E n \in Broadcasts : \E m, o \in log[n].sends[1].members :
        /\ m # o
        /\ st[m] = "closed" /\ Pending(m, n)
        /\ st[o] = "open" /\ FramesOf(o, n) # {}

\* the connections that joined a group (connect with identity and chat context) and
\* have not left it (no disconnect since)
Joined == {c \in Conns : st[c] \in {"open", "crashed"} /\ Truthy(user_id[c]) /\ Truthy(chat_id[c])}

\* C15: the memberships are the set that the joins and leaves so far imply, join
\* read as set-add and leave as set-remove: each connection that joined and has not
\* left is in its group once, and a leave of a connection that is in no group
\* (disconnect of one that never joined) removes nothing.
C15_MembershipIsSetOfJoins ==
    groups = {<<"chat_" \o Str(chat_id[c]), c>> : c \in Joined}

\* a connection that never joined the group of its route has disconnected, and the
\* group still holds its member
C15_Witness ==
    \E c, o \in Conns :
        /\ c # o
        /\ st[c] = "closed" /\ user_id[c] = None /\ chat_id[c] = chat_id[o]
        /\ st[o] = "open" /\ GroupsOf(o) # {}

\* the content the claim gives a message: its own, or "No content" without the key
ContentOf(message) ==
    IF "content" \in DOMAIN message THEN message.content ELSE "No content"

\* C16: for a new_message whose payload carries a message, the content of the
\* channel message, and of every frame a connection got for it, is the message's
\* content when the key is present and "No content" when it is absent.
C16_ContentDefault ==
    \A n \in 1..Len(log) :
        LET d == log[n].data
        IN  ( /\ Get(d, "event") = "new_message"
              /\ "payload" \in DOMAIN d
              /\ "message" \in DOMAIN d.payload )
            => /\ Get(log[n].sends[1].event.message, "content") = ContentOf(d.payload.message)
               /\ \A c \in Conns : \A i \in FramesOf(c, n) :
                     outbox[c][i].frame.payload.message.content = ContentOf(d.payload.message)

\* a member other than the sender holds a frame with content "No content", of a
\* message sent without content
C16_Witness ==
    \E n \in 1..Len(log) : \E c \in Conns : \E i \in FramesOf(c, n) :
        /\ c # log[n].by
        /\ log[n].data = Envelope("new_message", [chat_id |-> "1", message |-> Drop(MsgFull, {"content"})])
        /\ outbox[c][i].frame.payload.message.content = "No content"

\* C17: at most one chat has both users of a pair as participants, and a call that
\* has returned created True is the only one to have returned it for its pair.
C17_OneChatPerPair ==
    /\ \A u1, u2 \in Users :
          u1 # u2 => Cardinality(filter_participants(u1, u2)) <= 1
    /\ \A m1, m2 \in Mutations :
          ( /\ m1 # m2
            /\ calls[m1].pc = "done" /\ calls[m2].pc = "done"
            /\ {calls[m1].user1, calls[m1].user2} = {calls[m2].user1, calls[m2].user2} )
            => /\ calls[m1].chat = calls[m2].chat
               /\ ~(calls[m1].created /\ calls[m2].created)


\* the event kinds receive routes to a user_<id> group or to online_users
UnjoinedKinds ==
    {"start_chat", "typing_indicator", "update_profile", "user_online", "user_offline"}

ChatRouted ==
    {n \in 1..Len(log) :
        /\ Get(log[n].data, "event") \in {"new_message", "delete_chat"}
        /\ ~log[n].raised}

\* C19: a new_message or delete_chat makes one group_send, to chat_<chat_id of the
\* payload>, whether or not its sender is a member of that group; every member of
\* the group at that moment is sent the event, and a member whose handler has run
\* without raising holds its frame.
C19_RoutedByPayloadChatId ==
    \A n \in ChatRouted :
        LET s == log[n].sends[1]
        IN  /\ Len(log[n].sends) = 1
            /\ s.group = "chat_" \o Str(Get(log[n].data.payload, "chat_id"))
            /\ \A c \in s.members :
                  (st[c] = "open" /\ ~Pending(c, n)) => Cardinality(FramesOf(c, n)) = 1

\* a member of chat_1 has sent a new_message and a delete_chat with chat_id 2, and the
\* member of chat_2 holds the frame of each
C19_Witness ==
    \E n1, n2 \in ChatRouted : \E c, o \in Conns :
        /\ Get(log[n1].data, "event") = "new_message"
        /\ Get(log[n2].data, "event") = "delete_chat"
        /\ log[n1].by = c /\ log[n2].by = c
        /\ GroupsOf(c) = {"chat_1"}
        /\ log[n1].sends[1].group = "chat_2" /\ log[n2].sends[1].group = "chat_2"
        /\ log[n1].sends[1].members = {o} /\ log[n2].sends[1].members = {o}
        /\ Cardinality(FramesOf(o, n1)) = 1 /\ Cardinality(FramesOf(o, n2)) = 1

\* the same from a connection without a user, in no group
C19_WitnessUnauthenticated ==
    \E n \in ChatRouted : \E c, o \in Conns :
        /\ log[n].by = c /\ st[c] = "open" /\ user_id[c] = None /\ GroupsOf(c) = {}
        /\ log[n].sends[1].members = {o}
        /\ Cardinality(FramesOf(o, n)) = 1


\* C20: a receive step (the step that adds an entry to log, by the connection and
\* with the envelope of that entry), whether or not it raises, leaves every membership
\* as it was; a step that changes the memberships is a connect or a disconnect.
C20_ReceiveKeepsMembership ==
    [][ /\ ( /\ Len(log') = Len(log) + 1
              /\ receive(log'[Len(log')].by, log'[Len(log')].data) ) => groups' = groups
        /\ groups' # groups =>
              \/ \E c \in Conns, token \in Tokens, route \in RouteChatIds :
                    connect(c, token, route)
              \/ \E c \in Conns : disconnect(c) ]_vars

\* after a delete_chat for chat 1, its member is still a member and holds the frame of
\* a later new_message for chat 1 as well
C20_Witness ==
    \E n1, n2 \in 1..Len(log) : \E c \in Conns :
        /\ n1 < n2
        /\ Get(log[n1].data, "event") = "delete_chat"
        /\ Get(log[n2].data, "event") = "new_message"
        /\ ~log[n1].raised /\ ~log[n2].raised
        /\ log[n1].sends[1].group = "chat_1" /\ log[n2].sends[1].group = "chat_1"
        /\ c \in log[n1].sends[1].members /\ c \in log[n2].sends[1].members
        /\ <<"chat_1", c>> \in groups
        /\ Cardinality(FramesOf(c, n1)) = 1 /\ Cardinality(FramesOf(c, n2)) = 1

====
